---- MODULE Spec2Model ----
(***************************************************************************)
(* Model of the paper/author catalog backend: the database operations of   *)
(* database.js (Prisma client calls), the input validators of              *)
(* middleware.js and the route handlers of routes/papers.js and            *)
(* routes/authors.js.                                                      *)
(*                                                                         *)
(* The store is three tables: papers, authors and the implicit            *)
(* many-to-many join table (links).  Identifiers are autoincrement         *)
(* counters and are never reused.                                          *)
(***************************************************************************)
EXTENDS Integers, Sequences, FiniteSets, TLC

(***************************************************************************)
(* Bounds of the model: the highest identifier each autoincrement counter  *)
(* hands out.                                                              *)
(***************************************************************************)
MaxAuthorId == 2
MaxPaperId == 2

(***************************************************************************)
(* JavaScript values of the optional author fields.  Undef is a property   *)
(* that is absent from the JSON body (undefined), Null is a JSON null.     *)
(***************************************************************************)
Undef == "<undefined>"
Null == "<null>"
Blank == " "

Names == {"Ann", "Bob"}
Emails == {"e1"}
Affiliations == {"u1"}

(* Author objects of the request bodies of Spec: every combination of a    *)
(* name with an absent, null or present email and an absent or null        *)
(* affiliation.                                                            *)
AuthorInputs ==
    [name : Names, email : {Undef, Null} \cup Emails,
     affiliation : {Undef, Null}]

NamelessAuthor == [name |-> Blank, email |-> "e1", affiliation |-> Undef]

(* Author objects used in the two-author arrays. *)
CoAuthorInputs ==
    {c \in AuthorInputs : c.email = Undef /\ c.affiliation = Undef}

AuthorLists ==
    {<<>>, <<NamelessAuthor>>}
        \cup {<<c>> : c \in AuthorInputs}
        \cup {<<c, d>> : c \in CoAuthorInputs, d \in CoAuthorInputs}

(* Author objects of the request bodies of SpecDup: one name, an absent,   *)
(* null or present affiliation.                                            *)
DupAuthorInputs ==
    [name : {"Ann"}, email : {Undef},
     affiliation : {Undef, Null} \cup Affiliations]

DupAuthorLists == {<<c>> : c \in DupAuthorInputs}

(* JavaScript values that stand where a number is expected (the year of a  *)
(* paper body, the result of Number(...)): absent, null, the integer n,    *)
(* the non-integer number n + 0.5, NaN, and the string of the digits of n. *)
JsUndefined == [kind |-> "undefined", int |-> 0]
JsNull == [kind |-> "null", int |-> 0]
JsNumber(n) == [kind |-> "number", int |-> n]
JsFraction(n) == [kind |-> "fraction", int |-> n]
JsNaN == [kind |-> "NaN", int |-> 0]
JsString(n) == [kind |-> "string", int |-> n]

ValidPaperBodies(lists) ==
    [title : {"T1"}, publishedIn : {"V1"}, year : {JsNumber(2020)},
     authors : lists]

InvalidPaperBodies ==
    [title : {Blank}, publishedIn : {"V1"},
     year : {JsNumber(1900), JsUndefined},
     authors : {<<[name |-> "Ann", email |-> Undef, affiliation |-> Undef]>>}]

PaperBodies == ValidPaperBodies(AuthorLists) \cup InvalidPaperBodies

AuthorBodies == AuthorInputs \cup {NamelessAuthor}

PaperIds == 1..(MaxPaperId + 1)
AuthorIds == 1..(MaxAuthorId + 2)

(* A string whose characters matter (a path parameter, a limit or offset   *)
(* of the query string) is the sequence of its characters.                 *)
DigitChars == <<"0", "1", "2", "3", "4", "5", "6", "7", "8", "9">>

(* the decimal numeral of n, as a client writes it into a path *)
RECURSIVE Numeral(_)
Numeral(n) ==
    IF n < 10 THEN <<DigitChars[n + 1]>>
    ELSE Numeral(n \div 10) \o <<DigitChars[(n % 10) + 1]>>

VARIABLES
    papers,         \* paper table: id -> [title, publishedIn, year]
    authors,        \* author table: id -> [name, email, affiliation]
    links,          \* join table: set of <<paper id, author id>>
    nextPaperId,    \* autoincrement counter of the paper table
    nextAuthorId,   \* autoincrement counter of the author table
    last,           \* the request answered last and its response
    calls,          \* the requests in flight (SpecRace): one per connection
    request         \* the path parameter and query of the request answered last

vars ==
    <<papers, authors, links, nextPaperId, nextAuthorId, last, calls, request>>

store == <<papers, authors, links, nextPaperId, nextAuthorId>>

Min(S) == CHOOSE x \in S : \A y \in S : x <= y

Range(s) == {s[i] : i \in DOMAIN s}

AuthorsOf(lk, p) == {a \in AuthorIds : <<p, a>> \in lk}

PapersOf(lk, a) == {p \in PaperIds : <<p, a>> \in lk}

(***************************************************************************)
(* JavaScript built-ins used by middleware.js.                             *)
(***************************************************************************)
Digits == Range(DigitChars)

DigitValue(c) == CHOOSE i \in 0..9 : DigitChars[i + 1] = c

RECURSIVE DigitsValue(_)
DigitsValue(s) ==
    IF s = <<>> THEN 0
    ELSE DigitsValue(SubSeq(s, 1, Len(s) - 1)) * 10 + DigitValue(s[Len(s)])

AllDigits(s) == \A i \in DOMAIN s : s[i] \in Digits

IndexOf(s, c) ==
    IF \E i \in DOMAIN s : s[i] = c
    THEN Min({i \in DOMAIN s : s[i] = c}) ELSE 0

(* String.prototype.trim on a sequence of characters *)
RECURSIVE StrTrim(_)
StrTrim(s) ==
    IF s = <<>> THEN s
    ELSE IF Head(s) = " " THEN StrTrim(Tail(s))
    ELSE IF s[Len(s)] = " " THEN StrTrim(SubSeq(s, 1, Len(s) - 1))
    ELSE s

Unsigned(s) == IF s # <<>> /\ Head(s) \in {"+", "-"} THEN Tail(s) ELSE s

RECURSIVE Pow10(_)
Pow10(n) == IF n = 0 THEN 1 ELSE 10 * Pow10(n - 1)

(* an integer above every threshold the validators compare with *)
Huge == Pow10(9)

(* Number(str) of a string of decimal characters: surrounding white space  *)
(* is dropped, the empty string is 0, then an optional sign, digits with   *)
(* an optional decimal point and an optional exponent; anything else is    *)
(* NaN.  The result is an integer or a number with a fractional part.      *)
Number(str) ==
    LET t == StrTrim(str)
        neg == t # <<>> /\ Head(t) = "-"
        body == Unsigned(t)
        ePos == IndexOf(body, "e")
        mant == IF ePos = 0 THEN body ELSE SubSeq(body, 1, ePos - 1)
        expo == IF ePos = 0 THEN <<>> ELSE SubSeq(body, ePos + 1, Len(body))
        expNeg == expo # <<>> /\ Head(expo) = "-"
        expDigits == Unsigned(expo)
        dot == IndexOf(mant, ".")
        ip == IF dot = 0 THEN mant ELSE SubSeq(mant, 1, dot - 1)
        fp == IF dot = 0 THEN <<>> ELSE SubSeq(mant, dot + 1, Len(mant))
        wellFormed ==
            /\ AllDigits(ip)
            /\ AllDigits(fp)
            /\ ip \o fp # <<>>
            /\ ePos # 0 => (expDigits # <<>> /\ AllDigits(expDigits))
        n == DigitsValue(ip \o fp)
        e == IF expNeg THEN 0 - DigitsValue(expDigits)
             ELSE DigitsValue(expDigits)
        scale == Len(fp) - e
        sign == IF neg THEN 0 - 1 ELSE 1
    IN  IF t = <<>> THEN JsNumber(0)
        ELSE IF ~wellFormed THEN JsNaN
        ELSE IF n = 0 THEN JsNumber(0)
        ELSE IF scale <= 0
             THEN IF 0 - scale > 5 THEN JsNumber(sign * Huge)
                  ELSE JsNumber(sign * n * Pow10(0 - scale))
        ELSE IF scale > 5 THEN JsFraction(0)
        ELSE IF n % Pow10(scale) = 0
             THEN JsNumber(sign * (n \div Pow10(scale)))
             ELSE JsFraction(sign * (n \div Pow10(scale)))

NumberIsInteger(num) == num.kind = "number"

(* the characters of the string values of names, venues, affiliations and  *)
(* filters                                                                 *)
Chars(str) ==
    CASE str = "Ann" -> <<"A", "n", "n">>
      [] str = "Bob" -> <<"B", "o", "b">>
      [] str = "V1" -> <<"V", "1">>
      [] str = "u1" -> <<"u", "1">>
      [] str = "an" -> <<"a", "n">>
      [] str = "AN" -> <<"A", "N">>
      [] str = "b" -> <<"b">>
      [] str = "n" -> <<"n">>
      [] str = "v" -> <<"v">>
      [] str = "U" -> <<"U">>
      [] str = "x" -> <<"x">>
      [] str = " " -> <<" ">>
      [] str = "" -> <<>>

LowerChar(c) ==
    CASE c = "A" -> "a"
      [] c = "B" -> "b"
      [] c = "N" -> "n"
      [] c = "U" -> "u"
      [] c = "V" -> "v"
      [] OTHER -> c

ToLower(s) == [i \in DOMAIN s |-> LowerChar(s[i])]

(* s contains part as a run of consecutive characters *)
Includes(s, part) ==
    \E i \in 0..(Len(s) - Len(part)) : SubSeq(s, i + 1, i + Len(part)) = part

(* a boolean test of a number or of a string, as in year ? year : undefined *)
Truthy(v) == v.kind = "number" /\ v.int # 0

(***************************************************************************)
(* middleware.js                                                           *)
(***************************************************************************)
Trim(str) == IF str = Blank THEN "" ELSE str

isNonEmptyStringAfterTrim(str) ==
    /\ str \notin {Undef, Null}
    /\ Trim(str) # ""

(* the year check written with >= *)
isIntegerAtLeast1900(num) == NumberIsInteger(num) /\ 1900 <= num.int

isIntegerGreaterThan1900(num) == NumberIsInteger(num) /\ 1900 < num.int

isIntegerGreaterThan0(num) == NumberIsInteger(num) /\ 0 < num.int

isIntegerLeThan100(num) == NumberIsInteger(num) /\ 100 >= num.int

isIntegerNonNegative(num) == NumberIsInteger(num) /\ 0 <= num.int

(* the author loop without its break: one message per nameless author *)
RECURSIVE AuthorNameErrorsAll(_)
AuthorNameErrorsAll(list) ==
    IF list = <<>> THEN <<>>
    ELSE (IF ~isNonEmptyStringAfterTrim(Head(list).name)
          THEN <<"Author name is required">> ELSE <<>>)
         \o AuthorNameErrorsAll(Tail(list))

RECURSIVE AuthorNameErrors(_)
AuthorNameErrors(list) ==
    IF list = <<>> THEN <<>>
    ELSE IF ~isNonEmptyStringAfterTrim(Head(list).name)
         THEN <<"Author name is required">>
         ELSE AuthorNameErrors(Tail(list))

(* validatePaperInput without its check of the authors array *)
validatePaperInputNoAuthors(paper) ==
    (IF paper.title = Null \/ ~isNonEmptyStringAfterTrim(paper.title)
     THEN <<"Title is required">> ELSE <<>>)
    \o
    (IF paper.publishedIn = Null \/ ~isNonEmptyStringAfterTrim(paper.publishedIn)
     THEN <<"Published venue is required">> ELSE <<>>)
    \o
    (IF paper.year.kind \in {"null", "undefined"}
     THEN <<"Published year is required">>
     ELSE IF ~isIntegerGreaterThan1900(paper.year)
          THEN <<"Valid year after 1900 is required">> ELSE <<>>)

validatePaperInput(paper) ==
    (IF paper.title = Null \/ ~isNonEmptyStringAfterTrim(paper.title)
     THEN <<"Title is required">> ELSE <<>>)
    \o
    (IF paper.publishedIn = Null \/ ~isNonEmptyStringAfterTrim(paper.publishedIn)
     THEN <<"Published venue is required">> ELSE <<>>)
    \o
    (IF paper.year.kind \in {"null", "undefined"}
     THEN <<"Published year is required">>
     ELSE IF ~isIntegerGreaterThan1900(paper.year)
          THEN <<"Valid year after 1900 is required">> ELSE <<>>)
    \o
    (IF Len(paper.authors) = 0
     THEN <<"At least one author is required">>
     ELSE AuthorNameErrors(paper.authors))

validateAuthorInput(author) ==
    IF author.name = Null \/ ~isNonEmptyStringAfterTrim(author.name)
    THEN <<"Name is required">> ELSE <<>>

validateResourceId(id) == isIntegerGreaterThan0(Number(id))

isNonEmptyStringWithoutTrim(str) == str \notin {Undef, Null} /\ str # ""

(* a limit, offset or year that the query string does not hold *)
AbsentParam == <<Undef>>

(* the author parameter of a query: absent, one value, or repeated values *)
AuthorParam(kind, values) == [kind |-> kind, values |-> values]

NoAuthorParam == AuthorParam("undefined", <<>>)

(* a limit check without the upper bound *)
validateLimitNoMax(limit) ==
    \/ limit = AbsentParam
    \/ isIntegerGreaterThan0(Number(limit))

validateLimit(limit) ==
    \/ limit = AbsentParam
    \/ /\ isIntegerGreaterThan0(Number(limit))
       /\ isIntegerLeThan100(Number(limit))

(* req.query.limit after validateLimit *)
ParsedLimit(limit) == IF limit = AbsentParam THEN 10 ELSE Number(limit).int

validateOffset(offset) ==
    \/ offset = AbsentParam
    \/ isIntegerNonNegative(Number(offset))

(* req.query.offset after validateOffset *)
ParsedOffset(offset) == IF offset = AbsentParam THEN 0 ELSE Number(offset).int

InvalidQuery == <<"Invalid query parameter format">>

(* a validator that reports every invalid parameter *)
validatePaperQueryParamsAll(q) ==
    (IF q.year # AbsentParam /\ ~isIntegerGreaterThan1900(Number(q.year))
     THEN InvalidQuery ELSE <<>>)
    \o (IF q.publishedIn # Undef /\ ~isNonEmptyStringWithoutTrim(q.publishedIn)
        THEN InvalidQuery ELSE <<>>)
    \o (IF \E i \in DOMAIN q.author.values :
               ~isNonEmptyStringAfterTrim(q.author.values[i])
        THEN InvalidQuery ELSE <<>>)
    \o (IF ~validateLimit(q.limit) THEN InvalidQuery ELSE <<>>)
    \o (IF ~validateOffset(q.offset) THEN InvalidQuery ELSE <<>>)

(* the message list of the 400 response of validatePaperQueryParams; <<>>  *)
(* when it calls next()                                                    *)
validatePaperQueryParams(q) ==
    IF q.year # AbsentParam /\ ~isIntegerGreaterThan1900(Number(q.year))
    THEN InvalidQuery
    ELSE IF q.publishedIn # Undef /\ ~isNonEmptyStringWithoutTrim(q.publishedIn)
    THEN InvalidQuery
    ELSE IF /\ q.author.kind # "undefined"
            /\ \E i \in DOMAIN q.author.values :
                  ~isNonEmptyStringAfterTrim(q.author.values[i])
    THEN InvalidQuery
    ELSE IF ~validateLimit(q.limit) THEN InvalidQuery
    ELSE IF ~validateOffset(q.offset) THEN InvalidQuery
    ELSE <<>>

validateAuthorQueryParams(q) ==
    IF q.name # Undef /\ ~isNonEmptyStringAfterTrim(q.name)
    THEN InvalidQuery
    ELSE IF q.affiliation # Undef /\ ~isNonEmptyStringAfterTrim(q.affiliation)
    THEN InvalidQuery
    ELSE IF ~validateLimit(q.limit) THEN InvalidQuery
    ELSE IF ~validateOffset(q.offset) THEN InvalidQuery
    ELSE <<>>

(* req.query as the handler of GET /api/papers reads it *)
PaperFilters(q) ==
    [year |-> IF q.year = AbsentParam THEN JsUndefined ELSE Number(q.year),
     publishedIn |-> q.publishedIn,
     author |-> q.author,
     limit |-> ParsedLimit(q.limit),
     offset |-> ParsedOffset(q.offset)]

(* req.query as the handler of GET /api/authors reads it *)
AuthorFilters(q) ==
    [name |-> q.name,
     affiliation |-> q.affiliation,
     limit |-> ParsedLimit(q.limit),
     offset |-> ParsedOffset(q.offset)]

(***************************************************************************)
(* Prisma client calls used by database.js.  In a where clause and in the  *)
(* data of a write an undefined property is left out: it filters nothing   *)
(* and writes nothing.  A null property filters on, or writes, SQL NULL.   *)
(***************************************************************************)
(* a where clause in which an undefined property matches no row *)
WhereMatchesStrict(row, where) ==
    /\ row.name = where.name
    /\ row.email = where.email
    /\ row.affiliation = where.affiliation

WhereMatches(row, where) ==
    /\ row.name = where.name
    /\ where.email = Undef \/ row.email = where.email
    /\ where.affiliation = Undef \/ row.affiliation = where.affiliation

(* a lookup that never finds a row *)
findFirstAuthorNever(auths, where) == 0

(* prisma.author.findFirst({where, orderBy: {id: "asc"}}); 0 stands for null *)
findFirstAuthor(auths, where) ==
    LET found == {i \in DOMAIN auths : WhereMatches(auths[i], where)}
    IN  IF found = {} THEN 0 ELSE Min(found)

(* the row prisma.author.create({data}) inserts *)
NewAuthorRow(data) ==
    [name |-> data.name,
     email |-> IF data.email = Undef THEN Null ELSE data.email,
     affiliation |-> IF data.affiliation = Undef THEN Null ELSE data.affiliation]

(* an update that writes null into the columns the data leaves out *)
UpdatedAuthorRowDefaults(row, data) == NewAuthorRow(data)

(* the row prisma.author.update({data}) leaves behind *)
UpdatedAuthorRow(row, data) ==
    [name |-> data.name,
     email |-> IF data.email = Undef THEN row.email ELSE data.email,
     affiliation |-> IF data.affiliation = Undef THEN row.affiliation
                     ELSE data.affiliation]

Extend(f, k, v) == [x \in DOMAIN f \cup {k} |-> IF x = k THEN v ELSE f[x]]

Remove(f, k) == [x \in DOMAIN f \ {k} |-> f[x]]

(* the guard query written with none instead of every *)
PapersWithSoleAuthorNone(ps, lk, id) ==
    {p \in DOMAIN ps : \A a \in AuthorsOf(lk, p) : a # id}

(* prisma.paper.findMany({where: {authors: {every: {id}}}}) *)
PapersWithSoleAuthor(ps, lk, id) ==
    {p \in DOMAIN ps : \A a \in AuthorsOf(lk, p) : a = id}

(***************************************************************************)
(* database.js                                                             *)
(***************************************************************************)

(* The author loop of createPaper and updatePaper: for each author object  *)
(* of the body, findFirst and, when it returns null, create.               *)
RECURSIVE ResolveAuthors(_, _, _)
ResolveAuthors(auths, next, list) ==
    IF list = <<>> THEN [authors |-> auths, next |-> next, ids |-> <<>>]
    ELSE LET found == findFirstAuthor(auths, Head(list))
             auths1 == IF found = 0
                       THEN Extend(auths, next, NewAuthorRow(Head(list)))
                       ELSE auths
             id == IF found = 0 THEN next ELSE found
             next1 == IF found = 0 THEN next + 1 ELSE next
             rest == ResolveAuthors(auths1, next1, Tail(list))
         IN  [authors |-> rest.authors, next |-> rest.next,
              ids |-> <<id>> \o rest.ids]

PaperRow(data) ==
    [title |-> data.title, publishedIn |-> data.publishedIn,
     year |-> data.year.int]

(* authors: {connect: ids} of prisma.paper.create *)
ConnectAuthors(lk, p, ids) == lk \cup {<<p, a>> : a \in Range(ids)}

(* authors: {connect: ids} without set: [], which keeps the old links *)
SetAuthorsMerge(lk, p, ids) == lk \cup {<<p, a>> : a \in Range(ids)}

(* authors: {set: [], connect: ids} of prisma.paper.update *)
SetAuthors(lk, p, ids) ==
    {l \in lk : l[1] # p} \cup {<<p, a>> : a \in Range(ids)}

(* a paper delete that also drops every link of the paper's authors *)
LinksWithoutPaperAuthors(lk, p) ==
    {l \in lk : l[2] \notin AuthorsOf(lk, p)}

(* the join rows that go with a deleted paper row *)
LinksWithoutPaper(lk, p) == {l \in lk : l[1] # p}

(* an author delete that leaves the join rows of the author behind *)
LinksWithAuthor(lk, a) == lk

(* the join rows that go with a deleted author row *)
LinksWithoutAuthor(lk, a) == {l \in lk : l[2] # a}

Response(op, status, id, list, ids) ==
    [op |-> op, status |-> status, id |-> id, authors |-> list, ids |-> ids,
     messages |-> <<>>]

createPaper(data) ==
    LET r == ResolveAuthors(authors, nextAuthorId, data.authors)
    IN  /\ authors' = r.authors
        /\ nextAuthorId' = r.next
        /\ papers' = Extend(papers, nextPaperId, PaperRow(data))
        /\ links' = ConnectAuthors(links, nextPaperId, r.ids)
        /\ nextPaperId' = nextPaperId + 1
        /\ last' = Response("createPaper", "created", nextPaperId,
                            data.authors, r.ids)

(* an updatePaper that deletes the authors it leaves without a paper *)
updatePaperPruning(id, data) ==
    LET r == ResolveAuthors(authors, nextAuthorId, data.authors)
        lk == SetAuthors(links, id, r.ids)
        kept == {a \in DOMAIN r.authors :
                    a \notin AuthorsOf(links, id) \/ PapersOf(lk, a) # {}}
    IN  /\ nextAuthorId' = r.next
        /\ UNCHANGED nextPaperId
        /\ IF id \in DOMAIN papers
           THEN /\ authors' = [a \in kept |-> r.authors[a]]
                /\ papers' = [papers EXCEPT ![id] = PaperRow(data)]
                /\ links' = lk
                /\ last' = Response("updatePaper", "ok", id, data.authors, r.ids)
           ELSE /\ authors' = r.authors
                /\ UNCHANGED <<papers, links>>
                /\ last' = Response("updatePaper", "not_found", id,
                                    data.authors, r.ids)

updatePaper(id, data) ==
    LET r == ResolveAuthors(authors, nextAuthorId, data.authors)
    IN  /\ authors' = r.authors
        /\ nextAuthorId' = r.next
        /\ UNCHANGED nextPaperId
        /\ IF id \in DOMAIN papers
           THEN /\ papers' = [papers EXCEPT ![id] = PaperRow(data)]
                /\ links' = SetAuthors(links, id, r.ids)
                /\ last' = Response("updatePaper", "ok", id, data.authors, r.ids)
           ELSE /\ UNCHANGED <<papers, links>>
                /\ last' = Response("updatePaper", "not_found", id,
                                    data.authors, r.ids)

deletePaper(id) ==
    IF id \in DOMAIN papers
    THEN /\ papers' = Remove(papers, id)
         /\ links' = LinksWithoutPaper(links, id)
         /\ UNCHANGED <<authors, nextPaperId, nextAuthorId>>
         /\ last' = Response("deletePaper", "no_content", id, <<>>, <<>>)
    ELSE /\ UNCHANGED store
         /\ last' = Response("deletePaper", "not_found", id, <<>>, <<>>)

(* a createAuthor that hands back a stored author with the same fields *)
createAuthorDedup(data) ==
    IF findFirstAuthor(authors, data) # 0
    THEN /\ UNCHANGED store
         /\ last' = Response("createAuthor", "created",
                             findFirstAuthor(authors, data), <<>>, <<>>)
    ELSE /\ authors' = Extend(authors, nextAuthorId, NewAuthorRow(data))
         /\ nextAuthorId' = nextAuthorId + 1
         /\ UNCHANGED <<papers, links, nextPaperId>>
         /\ last' = Response("createAuthor", "created", nextAuthorId, <<>>, <<>>)

createAuthor(data) ==
    /\ authors' = Extend(authors, nextAuthorId, NewAuthorRow(data))
    /\ nextAuthorId' = nextAuthorId + 1
    /\ UNCHANGED <<papers, links, nextPaperId>>
    /\ last' = Response("createAuthor", "created", nextAuthorId, <<>>, <<>>)

(* an author update that also writes papers: {set: []} *)
updateAuthorDisconnect(id, data) ==
    IF id \in DOMAIN authors
    THEN /\ authors' = [authors EXCEPT ![id] = UpdatedAuthorRow(authors[id], data)]
         /\ links' = {l \in links : l[2] # id}
         /\ UNCHANGED <<papers, nextPaperId, nextAuthorId>>
         /\ last' = Response("updateAuthor", "ok", id, <<>>, <<>>)
    ELSE /\ UNCHANGED store
         /\ last' = Response("updateAuthor", "not_found", id, <<>>, <<>>)

updateAuthor(id, data) ==
    IF id \in DOMAIN authors
    THEN /\ authors' = [authors EXCEPT ![id] = UpdatedAuthorRow(authors[id], data)]
         /\ UNCHANGED <<papers, links, nextPaperId, nextAuthorId>>
         /\ last' = Response("updateAuthor", "ok", id, <<>>, <<>>)
    ELSE /\ UNCHANGED store
         /\ last' = Response("updateAuthor", "not_found", id, <<>>, <<>>)

deleteAuthor(id) ==
    IF PapersWithSoleAuthor(papers, links, id) # {}
    THEN /\ UNCHANGED store
         /\ last' = Response("deleteAuthor", "constraint", id, <<>>, <<>>)
    ELSE IF id \in DOMAIN authors
         THEN /\ authors' = Remove(authors, id)
              /\ links' = LinksWithoutAuthor(links, id)
              /\ UNCHANGED <<papers, nextPaperId, nextAuthorId>>
              /\ last' = Response("deleteAuthor", "no_content", id, <<>>, <<>>)
         ELSE /\ UNCHANGED store
              /\ last' = Response("deleteAuthor", "not_found", id, <<>>, <<>>)

(* orderBy: {id: "asc"} *)
RECURSIVE OrderById(_)
OrderById(ids) ==
    IF ids = {} THEN <<>>
    ELSE <<Min(ids)>> \o OrderById(ids \ {Min(ids)})

(* skip and take of findMany *)
SkipTake(rows, skip, take) ==
    SubSeq(rows, skip + 1, Min({Len(rows), skip + take}))

(* name: {contains: value, mode: "insensitive"} *)
ContainsInsensitive(field, value) ==
    /\ field # Null
    /\ Includes(ToLower(Chars(field)), ToLower(Chars(value)))

(* authors: {some: {name: {contains: value, mode: "insensitive"}}} *)
SomeAuthorNamed(p, value) ==
    \E a \in AuthorsOf(links, p) :
        a \in DOMAIN authors /\ ContainsInsensitive(authors[a].name, value)

(* an author filter that takes a paper matching any one of the values *)
AuthorArrayFilterAny(p, author) ==
    IF author.kind = "array"
    THEN IF Len(author.values) = 0
         THEN AuthorsOf(links, p) = {}
         ELSE \E i \in DOMAIN author.values :
                 SomeAuthorNamed(p, author.values[i])
    ELSE IF author.kind = "string"
         THEN SomeAuthorNamed(p, author.values[1])
         ELSE TRUE

(* authorArrayFilter of getAllPapers *)
AuthorArrayFilter(p, author) ==
    IF author.kind = "array"
    THEN IF Len(author.values) = 0
         THEN AuthorsOf(links, p) = {}
         ELSE \A i \in DOMAIN author.values :
                 SomeAuthorNamed(p, author.values[i])
    ELSE IF author.kind = "string"
         THEN SomeAuthorNamed(p, author.values[1])
         ELSE TRUE

(* the where clause of getAllPapers *)
PaperWhere(p, filters) ==
    /\ Truthy(filters.year) => papers[p].year = filters.year.int
    /\ isNonEmptyStringWithoutTrim(filters.publishedIn)
          => ContainsInsensitive(papers[p].publishedIn, filters.publishedIn)
    /\ AuthorArrayFilter(p, filters.author)

(* the where clause of getAllAuthors *)
AuthorWhere(a, filters) ==
    /\ isNonEmptyStringWithoutTrim(filters.name)
          => ContainsInsensitive(authors[a].name, filters.name)
    /\ isNonEmptyStringWithoutTrim(filters.affiliation)
          => ContainsInsensitive(authors[a].affiliation, filters.affiliation)

(* a findMany that returns the rows from the highest identifier down *)
RECURSIVE OrderByIdDesc(_)
OrderByIdDesc(ids) ==
    IF ids = {} THEN <<>>
    ELSE OrderByIdDesc(ids \ {Min(ids)}) \o <<Min(ids)>>

findManyPapersDesc(filters) ==
    SkipTake(OrderByIdDesc({p \in DOMAIN papers : PaperWhere(p, filters)}),
             filters.offset, filters.limit)

(* prisma.paper.findMany of getAllPapers: the identifiers of the page *)
findManyPapers(filters) ==
    SkipTake(OrderById({p \in DOMAIN papers : PaperWhere(p, filters)}),
             filters.offset, filters.limit)

(* prisma.author.findMany of getAllAuthors: the identifiers of the page *)
findManyAuthors(filters) ==
    SkipTake(OrderById({a \in DOMAIN authors : AuthorWhere(a, filters)}),
             filters.offset, filters.limit)

ListResponse(op, rows, total, limit, offset) ==
    [rows |-> rows, total |-> total, limit |-> limit, offset |-> offset]
        @@ Response(op, "ok", 0, <<>>, <<>>)

getAllPapers(filters) ==
    /\ UNCHANGED store
    /\ last' = ListResponse("getAllPapers", findManyPapers(filters),
                            Len(findManyPapers(filters)),
                            filters.limit, filters.offset)

getAllAuthors(filters) ==
    /\ UNCHANGED store
    /\ last' = ListResponse("getAllAuthors", findManyAuthors(filters),
                            Len(findManyAuthors(filters)),
                            filters.limit, filters.offset)

(* include: {authors: true} and include: {papers: true} name no orderBy:   *)
(* the related rows come back in whatever order the store yields them      *)
Orderings(ids) == {s \in [1..Cardinality(ids) -> ids] : Range(s) = ids}

(* the answer of a read of one record with its related rows *)
ReadResponse(op, status, id, rows) ==
    [rows |-> rows] @@ Response(op, status, id, <<>>, <<>>)

(* prisma.paper.findUnique and the 404 of the route when it returns null *)
getPaperById(id) ==
    /\ UNCHANGED store
    /\ IF id \in DOMAIN papers
       THEN \E rows \in Orderings(AuthorsOf(links, id)) :
               last' = ReadResponse("getPaperById", "ok", id, rows)
       ELSE last' = ReadResponse("getPaperById", "not_found", id, <<>>)

getAuthorById(id) ==
    /\ UNCHANGED store
    /\ IF id \in DOMAIN authors
       THEN \E rows \in Orderings(PapersOf(links, id)) :
               last' = ReadResponse("getAuthorById", "ok", id, rows)
       ELSE last' = ReadResponse("getAuthorById", "not_found", id, <<>>)

(***************************************************************************)
(* routes/papers.js and routes/authors.js: one request handled from start  *)
(* to end, no other request in between.                                    *)
(***************************************************************************)
(* res.status(400).json({error: "Validation Error", ...}) *)
Reject(op, id, messages) ==
    /\ UNCHANGED store
    /\ last' = [Response(op, "validation", id, <<>>, <<>>)
                   EXCEPT !.messages = messages]

InvalidId == <<"Invalid ID format">>

NoPath == <<>>

NoBody == [name |-> Undef, email |-> Undef, affiliation |-> Undef]

Query(year, publishedIn, author, name, affiliation, limit, offset) ==
    [year |-> year, publishedIn |-> publishedIn, author |-> author,
     name |-> name, affiliation |-> affiliation,
     limit |-> limit, offset |-> offset]

NoQuery ==
    Query(AbsentParam, Undef, NoAuthorParam, Undef, Undef,
          AbsentParam, AbsentParam)

Request(path, body, query) == [path |-> path, body |-> body, query |-> query]

PostPaper(body) ==
    /\ UNCHANGED calls
    /\ request' = Request(NoPath, body, NoQuery)
    /\ IF validatePaperInput(body) # <<>>
       THEN Reject("createPaper", 0, validatePaperInput(body))
       ELSE createPaper(body)

(* a handler that does not check the body *)
PutPaperUnvalidated(id, body) ==
    /\ UNCHANGED calls
    /\ request' = Request(id, body, NoQuery)
    /\ IF ~validateResourceId(id)
       THEN Reject("updatePaper", 0, InvalidId)
       ELSE updatePaper(Number(id).int, body)

PutPaper(id, body) ==
    /\ UNCHANGED calls
    /\ request' = Request(id, body, NoQuery)
    /\ IF ~validateResourceId(id)
       THEN Reject("updatePaper", 0, InvalidId)
       ELSE IF validatePaperInput(body) # <<>>
            THEN Reject("updatePaper", Number(id).int, validatePaperInput(body))
            ELSE updatePaper(Number(id).int, body)

DeletePaper(id) ==
    /\ UNCHANGED calls
    /\ request' = Request(id, NoBody, NoQuery)
    /\ IF ~validateResourceId(id)
       THEN Reject("deletePaper", 0, InvalidId)
       ELSE deletePaper(Number(id).int)

PostAuthor(body) ==
    /\ UNCHANGED calls
    /\ request' = Request(NoPath, body, NoQuery)
    /\ IF validateAuthorInput(body) # <<>>
       THEN Reject("createAuthor", 0, validateAuthorInput(body))
       ELSE createAuthor(body)

PutAuthor(id, body) ==
    /\ UNCHANGED calls
    /\ request' = Request(id, body, NoQuery)
    /\ IF ~validateResourceId(id)
       THEN Reject("updateAuthor", 0, InvalidId)
       ELSE IF validateAuthorInput(body) # <<>>
            THEN Reject("updateAuthor", Number(id).int, validateAuthorInput(body))
            ELSE updateAuthor(Number(id).int, body)

DeleteAuthor(id) ==
    /\ UNCHANGED calls
    /\ request' = Request(id, NoBody, NoQuery)
    /\ IF ~validateResourceId(id)
       THEN Reject("deleteAuthor", 0, InvalidId)
       ELSE deleteAuthor(Number(id).int)

GetPapers(query) ==
    /\ UNCHANGED calls
    /\ request' = Request(NoPath, NoBody, query)
    /\ IF validatePaperQueryParams(query) # <<>>
       THEN Reject("getAllPapers", 0, validatePaperQueryParams(query))
       ELSE getAllPapers(PaperFilters(query))

GetPaper(id) ==
    /\ UNCHANGED calls
    /\ request' = Request(id, NoBody, NoQuery)
    /\ IF ~validateResourceId(id)
       THEN Reject("getPaperById", 0, InvalidId)
       ELSE getPaperById(Number(id).int)

GetAuthors(query) ==
    /\ UNCHANGED calls
    /\ request' = Request(NoPath, NoBody, query)
    /\ IF validateAuthorQueryParams(query) # <<>>
       THEN Reject("getAllAuthors", 0, validateAuthorQueryParams(query))
       ELSE getAllAuthors(AuthorFilters(query))

GetAuthor(id) ==
    /\ UNCHANGED calls
    /\ request' = Request(id, NoBody, NoQuery)
    /\ IF ~validateResourceId(id)
       THEN Reject("getAuthorById", 0, InvalidId)
       ELSE getAuthorById(Number(id).int)

NoRow == [title |-> "", publishedIn |-> "", year |-> 0]

Idle == [op |-> "idle", pc |-> "idle", id |-> 0, row |-> NoRow,
         authors |-> <<>>, idx |-> 0, ids |-> <<>>]

Procs == {1, 2}

Init ==
    /\ papers = <<>>
    /\ authors = <<>>
    /\ links = {}
    /\ nextPaperId = 1
    /\ nextAuthorId = 1
    /\ last = [op |-> "none", status |-> "none", id |-> 0, authors |-> <<>>,
               ids |-> <<>>, messages |-> <<>>]
    /\ calls = [p \in Procs |-> Idle]
    /\ request = Request(NoPath, NoBody, NoQuery)

(* The author loop of this body hands out no identifier above cap. *)
AuthorsFit(list, cap) ==
    ResolveAuthors(authors, nextAuthorId, list).next <= cap + 1

(***************************************************************************)
(* Spec: the six writing requests, one at a time.                          *)
(***************************************************************************)
Next ==
    \/ \E body \in PaperBodies :
          /\ nextPaperId <= MaxPaperId
          /\ AuthorsFit(body.authors, MaxAuthorId)
          /\ PostPaper(body)
    \/ \E id \in 1..MaxPaperId, body \in PaperBodies :
          /\ AuthorsFit(body.authors, MaxAuthorId)
          /\ PutPaper(Numeral(id), body)
    \/ \E id \in 0..MaxPaperId : DeletePaper(Numeral(id))
    \/ \E body \in AuthorBodies :
          /\ nextAuthorId <= MaxAuthorId
          /\ PostAuthor(body)
    \/ \E id \in 1..MaxAuthorId, body \in AuthorBodies :
          PutAuthor(Numeral(id), body)
    \/ \E id \in 0..MaxAuthorId : DeleteAuthor(Numeral(id))

Spec == Init /\ [][Next]_vars

(***************************************************************************)
(* SpecDup: the same requests with bodies that name one author, with room  *)
(* for one more author record, so that duplicates of a tuple and a third   *)
(* record exist together.                                                  *)
(***************************************************************************)
DupMaxAuthorId == MaxAuthorId + 1

NextDup ==
    \/ \E body \in ValidPaperBodies(DupAuthorLists) :
          /\ nextPaperId <= MaxPaperId
          /\ AuthorsFit(body.authors, DupMaxAuthorId)
          /\ PostPaper(body)
    \/ \E id \in 1..MaxPaperId, body \in ValidPaperBodies(DupAuthorLists) :
          /\ AuthorsFit(body.authors, DupMaxAuthorId)
          /\ PutPaper(Numeral(id), body)
    \/ \E id \in 1..MaxPaperId : DeletePaper(Numeral(id))
    \/ \E body \in DupAuthorInputs :
          /\ nextAuthorId <= DupMaxAuthorId
          /\ PostAuthor(body)
    \/ \E id \in 1..DupMaxAuthorId, body \in DupAuthorInputs :
          PutAuthor(Numeral(id), body)
    \/ \E id \in 1..DupMaxAuthorId : DeleteAuthor(Numeral(id))

SpecDup == Init /\ [][NextDup]_vars

(***************************************************************************)
(* SpecRace: requests of two connections in flight together.  A handler    *)
(* runs until its next await; every Prisma call is one step on the store,  *)
(* and no transaction groups the calls of one database.js function.        *)
(***************************************************************************)
RaceAnn == [name |-> "Ann", email |-> Undef, affiliation |-> Undef]
RaceBob == [name |-> "Bob", email |-> Undef, affiliation |-> Undef]

RaceAuthorLists == {<<RaceAnn>>, <<RaceAnn, RaceBob>>}

Call(op, pc, id, row, list) ==
    [op |-> op, pc |-> pc, id |-> id, row |-> row, authors |-> list,
     idx |-> 1, ids |-> <<>>]

(* res.status(...).json(...): the handler of connection p ends *)
Respond(p, status) ==
    /\ last' = Response(calls[p].op, status, calls[p].id, calls[p].authors,
                        calls[p].ids)
    /\ calls' = [calls EXCEPT ![p] = Idle]

(* the handler of POST /api/papers up to the first findFirst *)
BeginCreatePaper(p, body) ==
    /\ calls[p].pc = "idle"
    /\ validatePaperInput(body) = <<>>
    /\ calls' = [calls EXCEPT ![p] = Call("createPaper", "find", 0,
                                        PaperRow(body), body.authors)]
    /\ UNCHANGED <<store, last, request>>

(* the handler of PUT /api/papers/:id up to the first findFirst *)
BeginUpdatePaper(p, id, body) ==
    /\ calls[p].pc = "idle"
    /\ validateResourceId(Numeral(id))
    /\ validatePaperInput(body) = <<>>
    /\ calls' = [calls EXCEPT ![p] = Call("updatePaper", "find", id,
                                        PaperRow(body), body.authors)]
    /\ UNCHANGED <<store, last, request>>

(* the handler of DELETE /api/authors/:id up to the guard query *)
BeginDeleteAuthor(p, id) ==
    /\ calls[p].pc = "idle"
    /\ validateResourceId(Numeral(id))
    /\ calls' = [calls EXCEPT ![p] = Call("deleteAuthor", "guard", id,
                                        NoRow, <<>>)]
    /\ UNCHANGED <<store, last, request>>

(* the loop goes on to the next author object, or to the paper write *)
Advance(c, id) ==
    [c EXCEPT !.ids = Append(c.ids, id),
              !.idx = c.idx + 1,
              !.pc = IF c.idx + 1 > Len(c.authors) THEN "write" ELSE "find"]

(* await prisma.author.findFirst(...) *)
FindAuthor(p) ==
    /\ calls[p].pc = "find"
    /\ LET found == findFirstAuthor(authors, calls[p].authors[calls[p].idx])
       IN  calls' = [calls EXCEPT ![p] =
                        IF found = 0 THEN [calls[p] EXCEPT !.pc = "create"]
                        ELSE Advance(calls[p], found)]
    /\ UNCHANGED <<store, last, request>>

(* await prisma.author.create(...) *)
CreateAuthorRow(p) ==
    /\ UNCHANGED request
    /\ calls[p].pc = "create"
    /\ nextAuthorId <= MaxAuthorId
    /\ authors' = Extend(authors, nextAuthorId,
                         NewAuthorRow(calls[p].authors[calls[p].idx]))
    /\ nextAuthorId' = nextAuthorId + 1
    /\ calls' = [calls EXCEPT ![p] = Advance(calls[p], nextAuthorId)]
    /\ UNCHANGED <<papers, links, nextPaperId, last>>

(* await prisma.paper.create(...): connecting an author row that is gone   *)
(* fails the call, and createPaper throws "Failed to insert paper"         *)
CreatePaperRow(p) ==
    /\ UNCHANGED request
    /\ calls[p].op = "createPaper"
    /\ calls[p].pc = "write"
    /\ IF Range(calls[p].ids) \subseteq DOMAIN authors
       THEN /\ nextPaperId <= MaxPaperId
            /\ papers' = Extend(papers, nextPaperId, calls[p].row)
            /\ links' = ConnectAuthors(links, nextPaperId, calls[p].ids)
            /\ nextPaperId' = nextPaperId + 1
            /\ UNCHANGED <<authors, nextAuthorId>>
            /\ last' = Response("createPaper", "created", nextPaperId,
                                calls[p].authors, calls[p].ids)
            /\ calls' = [calls EXCEPT ![p] = Idle]
       ELSE /\ UNCHANGED store
            /\ Respond(p, "error")

(* await prisma.paper.update(...) *)
UpdatePaperRow(p) ==
    /\ UNCHANGED request
    /\ calls[p].op = "updatePaper"
    /\ calls[p].pc = "write"
    /\ IF calls[p].id \notin DOMAIN papers
       THEN /\ UNCHANGED store
            /\ Respond(p, "not_found")
       ELSE IF Range(calls[p].ids) \subseteq DOMAIN authors
            THEN /\ papers' = [papers EXCEPT ![calls[p].id] = calls[p].row]
                 /\ links' = SetAuthors(links, calls[p].id, calls[p].ids)
                 /\ UNCHANGED <<authors, nextPaperId, nextAuthorId>>
                 /\ Respond(p, "ok")
            ELSE /\ UNCHANGED store
                 /\ Respond(p, "error")

(* await prisma.paper.findMany({where: {authors: {every: {id}}}}) and the  *)
(* throw that follows it                                                   *)
GuardDeleteAuthor(p) ==
    /\ UNCHANGED request
    /\ calls[p].pc = "guard"
    /\ UNCHANGED store
    /\ IF PapersWithSoleAuthor(papers, links, calls[p].id) # {}
       THEN Respond(p, "constraint")
       ELSE /\ calls' = [calls EXCEPT ![p].pc = "delete"]
            /\ UNCHANGED last

(* await prisma.author.delete({where: {id}}) *)
DeleteAuthorRow(p) ==
    /\ UNCHANGED request
    /\ calls[p].pc = "delete"
    /\ IF calls[p].id \in DOMAIN authors
       THEN /\ authors' = Remove(authors, calls[p].id)
            /\ links' = LinksWithoutAuthor(links, calls[p].id)
            /\ UNCHANGED <<papers, nextPaperId, nextAuthorId>>
            /\ Respond(p, "no_content")
       ELSE /\ UNCHANGED store
            /\ Respond(p, "not_found")

NextRace ==
    \/ \E p \in Procs, body \in ValidPaperBodies(RaceAuthorLists) :
          BeginCreatePaper(p, body)
    \/ \E p \in Procs, id \in 1..MaxPaperId,
          body \in ValidPaperBodies(RaceAuthorLists) : BeginUpdatePaper(p, id, body)
    \/ \E p \in Procs, id \in 1..MaxAuthorId : BeginDeleteAuthor(p, id)
    \/ \E p \in Procs : FindAuthor(p)
    \/ \E p \in Procs : CreateAuthorRow(p)
    \/ \E p \in Procs : CreatePaperRow(p)
    \/ \E p \in Procs : UpdatePaperRow(p)
    \/ \E p \in Procs : GuardDeleteAuthor(p)
    \/ \E p \in Procs : DeleteAuthorRow(p)

SpecRace == Init /\ [][NextRace]_vars

(***************************************************************************)
(* SpecList: papers are created and deleted, and the list and read         *)
(* requests run against the store, one request at a time.                  *)
(***************************************************************************)
ListMaxPaperId == MaxPaperId + 1

ListBob == [name |-> "Bob", email |-> Undef, affiliation |-> "u1"]

ListPaperBodies ==
    {[title |-> "T1", publishedIn |-> "V1", year |-> JsNumber(2020),
      authors |-> <<RaceAnn>>],
     [title |-> "T1", publishedIn |-> "V1", year |-> JsNumber(2021),
      authors |-> <<ListBob>>],
     [title |-> "T1", publishedIn |-> "V1", year |-> JsNumber(2020),
      authors |-> <<RaceAnn, ListBob>>]}

ListAuthorParams ==
    {NoAuthorParam,
     AuthorParam("string", <<"an">>),
     AuthorParam("array", <<"an", "b">>),
     AuthorParam("array", <<"AN", "n">>)}

ListPaperQueries ==
    {Query(AbsentParam, Undef, author, Undef, Undef, limit, offset) :
        author \in ListAuthorParams,
        limit \in {AbsentParam, Numeral(1), Numeral(2)},
        offset \in {AbsentParam, Numeral(1)}}
    \cup
    {Query(Numeral(2020), Undef, author, Undef, Undef,
           AbsentParam, AbsentParam) :
        author \in {NoAuthorParam, AuthorParam("array", <<"an", "b">>)}}
    \cup
    {Query(AbsentParam, venue, NoAuthorParam, Undef, Undef,
           AbsentParam, AbsentParam) : venue \in {"v", "x", " "}}

ListAuthorQueries ==
    {Query(AbsentParam, Undef, NoAuthorParam, name, affiliation,
           AbsentParam, AbsentParam) :
        name \in {Undef, "b"}, affiliation \in {Undef, "U"}}
    \cup
    {Query(AbsentParam, Undef, NoAuthorParam, Undef, Undef, limit, offset) :
        limit \in {AbsentParam, Numeral(1)},
        offset \in {AbsentParam, Numeral(1)}}

NextList ==
    \/ \E body \in ListPaperBodies :
          /\ nextPaperId <= ListMaxPaperId
          /\ AuthorsFit(body.authors, MaxAuthorId)
          /\ PostPaper(body)
    \/ \E id \in 1..ListMaxPaperId : DeletePaper(Numeral(id))
    \/ \E query \in ListPaperQueries : GetPapers(query)
    \/ \E query \in ListAuthorQueries : GetAuthors(query)
    \/ \E id \in 1..ListMaxPaperId : GetPaper(Numeral(id))
    \/ \E id \in 1..MaxAuthorId : GetAuthor(Numeral(id))

SpecList == Init /\ [][NextList]_vars

(***************************************************************************)
(* SpecValidate: every route, with request bodies, path parameters and     *)
(* query strings of every shape, one request at a time.  A request is      *)
(* taken when the answer to the one before has been sent.                  *)
(***************************************************************************)
MaxRawLen == 3

RawAlphabet == {"0", "1", "-", ".", "e", " ", "a"}

(* the strings of at most MaxRawLen characters *)
RawStrings == UNION {[1..n -> RawAlphabet] : n \in 0..MaxRawLen}

ValidateAuthorLists ==
    {<<RaceAnn>>, <<RaceAnn, RaceAnn>>, <<>>, <<NamelessAuthor>>,
     <<RaceAnn, NoBody>>, <<NamelessAuthor, NamelessAuthor>>}

ValidatePaperBodies ==
    [title : {"T1", Blank, Null, Undef, ""},
     publishedIn : {"V1", Blank, Null},
     year : {JsNumber(1900), JsNumber(1901), JsUndefined, JsNull,
             JsFraction(2020), JsString(2020)},
     authors : ValidateAuthorLists]

GoodPaperBody ==
    [title |-> "T1", publishedIn |-> "V1", year |-> JsNumber(1901),
     authors |-> <<RaceAnn>>]

BadPaperBody ==
    [title |-> Blank, publishedIn |-> "V1", year |-> JsNumber(1900),
     authors |-> <<>>]

ValidateAuthorBodies ==
    [name : {"Ann", Blank, Null, Undef, ""}, email : {Undef},
     affiliation : {Undef}]

ValidatePaperQueries ==
    {Query(AbsentParam, Undef, NoAuthorParam, Undef, Undef, limit, AbsentParam) :
        limit \in RawStrings}
    \cup
    {Query(AbsentParam, Undef, NoAuthorParam, Undef, Undef, AbsentParam, offset) :
        offset \in RawStrings \cup {AbsentParam}}
    \cup
    {Query(year, venue, author, Undef, Undef, limit, AbsentParam) :
        year \in {Numeral(1900), Numeral(1901), <<"a">>},
        venue \in {Undef, "", " "},
        author \in {NoAuthorParam, AuthorParam("string", <<" ">>),
                    AuthorParam("array", <<"an", " ">>)},
        limit \in {AbsentParam, Numeral(0)}}

ValidateAuthorQueries ==
    {Query(AbsentParam, Undef, NoAuthorParam, Undef, Undef, limit, AbsentParam) :
        limit \in RawStrings}
    \cup
    {Query(AbsentParam, Undef, NoAuthorParam, Undef, Undef, AbsentParam, offset) :
        offset \in RawStrings \cup {AbsentParam}}
    \cup
    {Query(AbsentParam, Undef, NoAuthorParam, name, affiliation,
           AbsentParam, offset) :
        name \in {Undef, "an", " "},
        affiliation \in {Undef, "U", ""},
        offset \in {AbsentParam, <<"-", "1">>}}

NoResponse == Response("none", "none", 0, <<>>, <<>>)

(* the answer has been sent: the server waits for the next request *)
EndRequest ==
    /\ last # NoResponse
    /\ last' = NoResponse
    /\ request' = Request(NoPath, NoBody, NoQuery)
    /\ UNCHANGED <<store, calls>>

NextValidate ==
    \/ /\ last = NoResponse
       /\ nextPaperId <= MaxPaperId
       /\ \E body \in ValidatePaperBodies :
             AuthorsFit(body.authors, MaxAuthorId) /\ PostPaper(body)
    \/ /\ last = NoResponse
       /\ \E id \in RawStrings, body \in {GoodPaperBody, BadPaperBody} :
             AuthorsFit(body.authors, MaxAuthorId) /\ PutPaper(id, body)
    \/ /\ last = NoResponse
       /\ \E body \in ValidatePaperBodies :
             AuthorsFit(body.authors, MaxAuthorId) /\ PutPaper(Numeral(1), body)
    \/ /\ last = NoResponse
       /\ \E id \in RawStrings : DeletePaper(id)
    \/ /\ last = NoResponse
       /\ nextAuthorId <= MaxAuthorId
       /\ \E body \in ValidateAuthorBodies : PostAuthor(body)
    \/ /\ last = NoResponse
       /\ \E id \in RawStrings, body \in ValidateAuthorBodies : PutAuthor(id, body)
    \/ /\ last = NoResponse
       /\ \E id \in RawStrings : DeleteAuthor(id)
    \/ /\ last = NoResponse
       /\ \E query \in ValidatePaperQueries : GetPapers(query)
    \/ /\ last = NoResponse
       /\ \E query \in ValidateAuthorQueries : GetAuthors(query)
    \/ /\ last = NoResponse
       /\ \E id \in RawStrings : GetPaper(id)
    \/ /\ last = NoResponse
       /\ \E id \in RawStrings : GetAuthor(id)
    \/ EndRequest

SpecValidate == Init /\ [][NextValidate]_vars

(***************************************************************************)
(* Properties.                                                             *)
(***************************************************************************)
PaperWritten(r) ==
    \/ r.op = "createPaper" /\ r.status = "created"
    \/ r.op = "updatePaper" /\ r.status = "ok"

(* The identity tuple of an author object: an omitted field counts as null. *)
IdentityTuple(c) ==
    [name |-> c.name,
     email |-> IF c.email = Undef THEN Null ELSE c.email,
     affiliation |-> IF c.affiliation = Undef THEN Null ELSE c.affiliation]

SoleAuthorOfSomePaper(a) ==
    \E p \in DOMAIN papers : AuthorsOf(links, p) = {a}

(* the identifiers of the stored papers that match the filters of a query *)
MatchingPapers(filters) == {p \in DOMAIN papers : PaperWhere(p, filters)}

MatchingAuthors(filters) == {a \in DOMAIN authors : AuthorWhere(a, filters)}

ListAnswered(op) == last.op = op /\ last.status = "ok"

(* C1: a deleteAuthor request for an author who is the only linked author  *)
(* of some paper is answered with the constraint error and changes no      *)
(* paper, author or link.                                                  *)
C1_SoleAuthorDeleteRefused ==
    [][(last'.op = "deleteAuthor" /\ SoleAuthorOfSomePaper(last'.id))
          => (last'.status = "constraint" /\ UNCHANGED store)]_vars

C1_Witness ==
    /\ last.op = "deleteAuthor"
    /\ last.status = "constraint"
    /\ SoleAuthorOfSomePaper(last.id)

(* C2: in every state reached by validated requests handled one at a time, *)
(* every stored paper has at least one linked author.                      *)
C2_EveryPaperHasAnAuthor ==
    \A p \in DOMAIN papers : AuthorsOf(links, p) # {}

(* a co-author was deleted and left a paper with one author *)
C2_Witness ==
    /\ last.op = "deleteAuthor"
    /\ last.status = "no_content"
    /\ \E p \in DOMAIN papers : Cardinality(AuthorsOf(links, p)) = 1

(* C3: deleteAuthor(X) racing with another request never deletes X while  *)
(* X is the only author of a paper, so no paper is left without authors.   *)
C3_GuardAndDeleteAtomic ==
    [][\A x \in DOMAIN authors :
          x \notin DOMAIN authors'
             => /\ ~SoleAuthorOfSomePaper(x)
                /\ \A p \in DOMAIN papers' : AuthorsOf(links', p) # {}]_vars

C5_ExactTupleMatch ==
    [][PaperWritten(last')
          => \A i \in DOMAIN last'.authors :
                /\ authors'[last'.ids[i]] = IdentityTuple(last'.authors[i])
                /\ (\A a \in DOMAIN authors :
                       authors[a] # IdentityTuple(last'.authors[i]))
                      => last'.ids[i] \notin DOMAIN authors]_vars

(* C6: when two or more stored rows equal the author object's identity     *)
(* tuple, createPaper and updatePaper link the paper to the one with the   *)
(* lowest identifier and create no author record.                          *)
C6_LowestDuplicateChosen ==
    [][PaperWritten(last')
          => \A i \in DOMAIN last'.authors :
                LET equal == {a \in DOMAIN authors :
                                 authors[a] = IdentityTuple(last'.authors[i])}
                IN  Cardinality(equal) >= 2
                       => /\ last'.ids[i] = Min(equal)
                          /\ <<last'.id, Min(equal)>> \in links'
                          /\ DOMAIN authors' = DOMAIN authors]_vars

(* C7: after a successful updatePaper the paper's author set is exactly    *)
(* the set of identifiers resolved from the body's authors: each linked    *)
(* author is the lowest-numbered row matching one of the author objects.   *)
C7_UpdateReplacesAuthors ==
    (last.op = "updatePaper" /\ last.status = "ok")
        => /\ AuthorsOf(links, last.id) = Range(last.ids)
           /\ Len(last.ids) = Len(last.authors)
           /\ \A i \in DOMAIN last.authors :
                 /\ last.ids[i] \in DOMAIN authors
                 /\ WhereMatches(authors[last.ids[i]], last.authors[i])

(* an update left an author that is on no paper any more *)
C7_Witness ==
    /\ last.op = "updatePaper"
    /\ last.status = "ok"
    /\ AuthorsOf(links, last.id) = Range(last.ids)
    /\ links = {<<last.id, last.ids[1]>>}
    /\ Cardinality(DOMAIN authors) = 2
    /\ nextPaperId = 2

C9_DeletePaperFrame ==
    [][(last'.op = "deletePaper")
          => /\ authors' = authors
             /\ nextAuthorId' = nextAuthorId
             /\ \A l \in links : l[1] # last'.id => l \in links'
             /\ links' \subseteq links
             /\ \A p \in DOMAIN papers :
                   p # last'.id => (p \in DOMAIN papers' /\ papers'[p] = papers[p])]_vars

(* a paper was deleted whose author is also on another paper *)
C9_Witness ==
    /\ last.op = "deletePaper"
    /\ last.status = "no_content"
    /\ last.id \notin DOMAIN papers
    /\ \E l \in links : l[1] # last.id
    /\ \E a \in DOMAIN authors : PapersOf(links, a) = {}

(* C10: updateAuthor changes only the name, email and affiliation of the   *)
(* one author: papers, links, the set of authors and every other author    *)
(* stay as they were.                                                      *)
C10_UpdateAuthorFrame ==
    [][(last'.op = "updateAuthor")
          => /\ papers' = papers
             /\ links' = links
             /\ DOMAIN authors' = DOMAIN authors
             /\ nextAuthorId' = nextAuthorId
             /\ nextPaperId' = nextPaperId
             /\ \A a \in DOMAIN authors : a # last'.id => authors'[a] = authors[a]]_vars

(* an author with a paper was renamed *)
C10_Witness ==
    /\ last.op = "updateAuthor"
    /\ last.status = "ok"
    /\ PapersOf(links, last.id) # {}
    /\ \E a \in DOMAIN authors : a # last.id

(* C11: deleteAuthor on a stored author who is the sole author of no paper *)
(* is not refused, and its delete removes the author record and the        *)
(* author's links and leaves every paper stored.                           *)
C11_DeletableAuthorDeleted ==
    [][\A p \in Procs :
          /\ (/\ calls[p].pc = "guard" /\ calls'[p].pc # "guard"
              /\ calls[p].id \in DOMAIN authors
              /\ ~SoleAuthorOfSomePaper(calls[p].id))
                => calls'[p].pc = "delete"
          /\ (/\ calls[p].pc = "delete" /\ calls'[p].pc # "delete"
              /\ calls[p].id \in DOMAIN authors)
                => /\ last'.status = "no_content"
                   /\ authors' = Remove(authors, calls[p].id)
                   /\ links' = {l \in links : l[2] # calls[p].id}
                   /\ papers' = papers]_vars

(* C12: in the answer of listPapers and of listAuthors, total is the       *)
(* number of stored rows that match the filters of the query, whatever     *)
(* limit and offset are.                                                   *)
C12_TotalCountsFilteredSet ==
    /\ ListAnswered("getAllPapers")
          => last.total = Cardinality(MatchingPapers(PaperFilters(request.query)))
    /\ ListAnswered("getAllAuthors")
          => last.total = Cardinality(MatchingAuthors(AuthorFilters(request.query)))

(* the rows of a page are the matching rows of rank offset+1, offset+2,    *)
(* ... in ascending identifier order, at most limit of them                *)
IsPage(rows, matching, limit, offset) ==
    /\ Len(rows) <= limit
    /\ \A i \in DOMAIN rows :
          /\ rows[i] \in matching
          /\ Cardinality({m \in matching : m < rows[i]}) = offset + i - 1
    /\ \/ Len(rows) = limit
       \/ offset + Len(rows) = Cardinality(matching)
       \/ Len(rows) = 0 /\ offset >= Cardinality(matching)

(* C13: listPapers and listAuthors return exactly positions offset+1 to    *)
(* offset+limit of the filtered rows sorted by ascending identifier, and   *)
(* never more than limit rows.                                             *)
C13_PageIsSliceOfSortedMatches ==
    /\ ListAnswered("getAllPapers")
          => IsPage(last.rows, MatchingPapers(PaperFilters(request.query)),
                    last.limit, last.offset)
    /\ ListAnswered("getAllAuthors")
          => IsPage(last.rows, MatchingAuthors(AuthorFilters(request.query)),
                    last.limit, last.offset)

(* the second of the papers 1 and 3 was returned with offset 1, paper 2    *)
(* being deleted                                                           *)
C13_Witness ==
    /\ ListAnswered("getAllPapers")
    /\ DOMAIN papers = {1, 3}
    /\ last.offset = 1
    /\ last.rows = <<3>>

(* every value of the author filter is part of the name of an author of p *)
EveryValueNamesAnAuthor(p, values) ==
    \A i \in DOMAIN values :
        \E a \in AuthorsOf(links, p) :
            Includes(ToLower(Chars(authors[a].name)), ToLower(Chars(values[i])))

(* C14: listPapers with several author values returns only papers for     *)
(* which every value is part of the name of one of the paper's authors,    *)
(* and, without other filters and within the first page, all such papers.  *)
C14_AuthorValuesAllMatch ==
    (ListAnswered("getAllPapers") /\ request.query.author.kind = "array")
        => /\ \A p \in Range(last.rows) :
                 EveryValueNamesAnAuthor(p, request.query.author.values)
           /\ (/\ request.query.year = AbsentParam
               /\ request.query.limit = AbsentParam
               /\ request.query.offset = AbsentParam)
                 => Range(last.rows) =
                       {p \in DOMAIN papers :
                           EveryValueNamesAnAuthor(p, request.query.author.values)}

(* a paper of Ann and Bob was returned for the values an and b, and a      *)
(* paper of Ann alone, which matches an only, was not                      *)
C14_Witness ==
    /\ ListAnswered("getAllPapers")
    /\ request.query.author = AuthorParam("array", <<"an", "b">>)
    /\ last.rows # <<>>
    /\ \E p \in DOMAIN papers :
          /\ p \notin Range(last.rows)
          /\ \E a \in AuthorsOf(links, p) : authors[a].name = "Ann"

IdOps ==
    {"updatePaper", "deletePaper", "getPaperById",
     "updateAuthor", "deleteAuthor", "getAuthorById"}

(* the request fails the validation its route applies *)
FailsValidation(op, req) ==
    \/ op \in IdOps /\ ~validateResourceId(req.path)
    \/ op \in {"createPaper", "updatePaper"} /\ validatePaperInput(req.body) # <<>>
    \/ op \in {"createAuthor", "updateAuthor"} /\ validateAuthorInput(req.body) # <<>>
    \/ op = "getAllPapers" /\ validatePaperQueryParams(req.query) # <<>>
    \/ op = "getAllAuthors" /\ validateAuthorQueryParams(req.query) # <<>>

(* C15: a request whose body, path id or query parameters fail validation  *)
(* is answered with a validation error and changes no paper, author or     *)
(* link.                                                                   *)
C15_InvalidRequestChangesNothing ==
    [][(last' # last /\ FailsValidation(last'.op, request'))
          => (last'.status = "validation" /\ UNCHANGED store)]_vars

(* an update of the stored paper 1 with an invalid body was rejected *)
C15_Witness ==
    /\ last.op = "updatePaper"
    /\ last.status = "validation"
    /\ request.path = Numeral(1)
    /\ request.body.authors = <<>>
    /\ 1 \in DOMAIN papers
    /\ AuthorsOf(links, 1) # {}

(* C16: updatePaper and deleteAuthor answered for an identifier that has   *)
(* no stored record report not found, never the constraint error and       *)
(* never a failure.                                                        *)
C16_MissingRecordNotFound ==
    [][\A p \in Procs :
          (/\ calls[p].pc # "idle" /\ calls'[p].pc = "idle"
           /\ \/ calls[p].op = "deleteAuthor" /\ calls[p].id \notin DOMAIN authors
              \/ calls[p].op = "updatePaper" /\ calls[p].id \notin DOMAIN papers)
             => last'.status = "not_found"]_vars

PaperBodyAnswered ==
    /\ last.op \in {"createPaper", "updatePaper"}
    /\ last.messages # InvalidId

(* the rule a message of validatePaperInput belongs to: 1 title,           *)
(* 2 publishedIn, 3 year, 4 authors                                        *)
RuleOf(message) ==
    CASE message = "Title is required" -> 1
      [] message = "Published venue is required" -> 2
      [] message \in {"Published year is required",
                      "Valid year after 1900 is required"} -> 3
      [] message \in {"At least one author is required",
                      "Author name is required"} -> 4
      [] OTHER -> 0

NonBlank(str) == str \notin {Undef, Null, "", Blank}

(* C17: the messages of validatePaperInput are those of the violated rules *)
(* in the order title, publishedIn, year, authors, one message per rule at *)
(* most, and there is none exactly when every rule holds.                  *)
C17_MessagesInRuleOrder ==
    PaperBodyAnswered
      => LET body == request.body
             msgs == last.messages
             has(m) == \E i \in DOMAIN msgs : msgs[i] = m
         IN  /\ \A i \in DOMAIN msgs : RuleOf(msgs[i]) # 0
             /\ \A i, j \in DOMAIN msgs :
                   i < j => RuleOf(msgs[i]) < RuleOf(msgs[j])
             /\ has("Title is required") <=> ~NonBlank(body.title)
             /\ has("Published venue is required") <=> ~NonBlank(body.publishedIn)
             /\ (\E i \in DOMAIN msgs : RuleOf(msgs[i]) = 3)
                   <=> ~(body.year.kind = "number" /\ body.year.int > 1900)
             /\ has("At least one author is required") <=> body.authors = <<>>
             /\ has("Author name is required")
                   <=> \E i \in DOMAIN body.authors :
                          ~NonBlank(body.authors[i].name)
             /\ msgs = <<>> <=> last.status # "validation"

(* a body that violates all four rules, two of its authors nameless, was   *)
(* answered with four messages                                             *)
C17_Witness ==
    /\ last.op = "createPaper"
    /\ request.body.authors = <<NamelessAuthor, NamelessAuthor>>
    /\ last.messages = <<"Title is required", "Published venue is required",
                         "Published year is required",
                         "Author name is required">>

(* C18: a missing or null year gives "Published year is required" and not *)
(* the other year message; a year that is present and not an integer above *)
(* 1900 gives "Valid year after 1900 is required" and not the first; 1900  *)
(* is rejected and 1901 is accepted.                                       *)
C18_YearMessages ==
    PaperBodyAnswered
      => LET year == request.body.year
             has(m) == \E i \in DOMAIN last.messages : last.messages[i] = m
         IN  /\ year.kind \in {"undefined", "null"}
                   => /\ has("Published year is required")
                      /\ ~has("Valid year after 1900 is required")
             /\ (year.kind \in {"fraction", "string"}
                    \/ (year.kind = "number" /\ year.int <= 1900))
                   => /\ has("Valid year after 1900 is required")
                      /\ ~has("Published year is required")
             /\ year = JsNumber(1900) => last.status = "validation"
             /\ year = JsNumber(1901)
                   => /\ ~has("Valid year after 1900 is required")
                      /\ ~has("Published year is required")
                      /\ request.body = GoodPaperBody
                            => last.status \in {"created", "ok", "not_found"}

(* a paper of the year 1901 was stored *)
C18_Witness ==
    /\ last.op = "createPaper"
    /\ last.status = "created"
    /\ request.body.year = JsNumber(1901)
    /\ papers[last.id].year = 1901

(* C19: a list query is answered only with 1 <= limit <= 100 and           *)
(* offset >= 0; an absent limit is 10 and an absent offset is 0; a limit   *)
(* or offset written as a plain numeral is accepted exactly when its value *)
(* is in that range and reaches the list operation as that value.          *)
C19_LimitOffsetInRange ==
    LET q == request.query
        numeral(raw) == raw # <<>> /\ AllDigits(raw)
    IN  last.op \in {"getAllPapers", "getAllAuthors"}
          => /\ last.status = "ok"
                  => /\ 1 <= last.limit /\ last.limit <= 100
                     /\ 0 <= last.offset
                     /\ q.limit = AbsentParam => last.limit = 10
                     /\ q.offset = AbsentParam => last.offset = 0
             /\ numeral(q.limit)
                  => IF 1 <= DigitsValue(q.limit) /\ DigitsValue(q.limit) <= 100
                     THEN last.status = "ok" /\ last.limit = DigitsValue(q.limit)
                     ELSE last.status = "validation"
             /\ numeral(q.offset)
                  => last.status = "ok" /\ last.offset = DigitsValue(q.offset)
             /\ (q.limit # AbsentParam /\ Number(q.limit).kind # "number")
                  => last.status = "validation"
             /\ (q.offset # AbsentParam /\ Number(q.offset).kind # "number")
                  => last.status = "validation"

(* the limit 100 was accepted and reached the list operation *)
C19_Witness ==
    /\ ListAnswered("getAllPapers")
    /\ request.query.limit = Numeral(100)
    /\ last.limit = 100

(* the path parameter is a plain decimal numeral of a positive integer *)
IsPositiveNumeral(raw) ==
    /\ raw # <<>>
    /\ \A i \in DOMAIN raw : raw[i] \in Range(DigitChars)
    /\ DigitsValue(raw) > 0

(* C20: a path id is accepted only when it is the numeral of a positive    *)
(* integer, and then the operation runs with that integer; every other     *)
(* path id (0, a negative number, a number with a fractional part, a       *)
(* string with a non-numeric character) is answered "Invalid ID format".   *)
C20_OnlyPositiveIntegerIds ==
    last.op \in IdOps
      => IF IsPositiveNumeral(request.path)
         THEN last.messages # InvalidId
                 /\ (last.status # "validation"
                       => last.id = DigitsValue(request.path))
         ELSE last.status = "validation" /\ last.messages = InvalidId

(* C21: the authors returned with a paper are in ascending order of        *)
(* author identifier, and the papers returned with an author in ascending  *)
(* order of paper identifier.                                              *)
C21_RelatedRowsAscending ==
    (last.op \in {"getPaperById", "getAuthorById"} /\ last.status = "ok")
      => last.rows = OrderById(Range(last.rows))

(* an author write was answered with the author it stored *)
AuthorWritten(op) ==
    /\ last.op = op
    /\ last.status \in {"created", "ok"}

(* C22: after createAuthor and after updateAuthor with a body that omits   *)
(* email or affiliation, the stored author has null in the omitted field.  *)
C22_OmittedFieldsStoredNull ==
    (AuthorWritten("createAuthor") \/ AuthorWritten("updateAuthor"))
      => /\ request.body.email = Undef => authors[last.id].email = Null
         /\ request.body.affiliation = Undef
               => authors[last.id].affiliation = Null

(* C23: updateAuthor overwrites the fields its body has and leaves the     *)
(* stored value of an omitted email or affiliation as it was.              *)
C23_OmittedFieldsKept ==
    [][(last'.op = "updateAuthor" /\ last'.status = "ok")
          => /\ authors'[last'.id].name = request'.body.name
             /\ authors'[last'.id].email =
                   IF request'.body.email = Undef
                   THEN authors[last'.id].email ELSE request'.body.email
             /\ authors'[last'.id].affiliation =
                   IF request'.body.affiliation = Undef
                   THEN authors[last'.id].affiliation
                   ELSE request'.body.affiliation]_vars

(* an author with a stored email was updated with a body without email *)
C23_Witness ==
    /\ AuthorWritten("updateAuthor")
    /\ request.body.email = Undef
    /\ request.body.name = "Bob"
    /\ authors[last.id] = [name |-> "Bob", email |-> "e1", affiliation |-> Null]

(* the parameters of a list query that fail their check *)
InvalidParams(op, q) ==
    {k \in {"year", "publishedIn", "author", "name", "affiliation",
            "limit", "offset"} :
        \/ k = "year" /\ op = "getAllPapers" /\ q.year # AbsentParam
              /\ ~(Number(q.year).kind = "number" /\ Number(q.year).int > 1900)
        \/ k = "publishedIn" /\ op = "getAllPapers" /\ q.publishedIn = ""
        \/ k = "author" /\ op = "getAllPapers"
              /\ \E i \in DOMAIN q.author.values : q.author.values[i] \in {"", Blank}
        \/ k = "name" /\ op = "getAllAuthors" /\ q.name \in {"", Blank}
        \/ k = "affiliation" /\ op = "getAllAuthors"
              /\ q.affiliation \in {"", Blank}
        \/ k = "limit" /\ ~validateLimit(q.limit)
        \/ k = "offset" /\ ~validateOffset(q.offset)}

(* C24: a list query with one or more invalid parameters is answered with  *)
(* the one message "Invalid query parameter format" and with no list.      *)
C24_OneGenericQueryError ==
    last.op \in {"getAllPapers", "getAllAuthors"}
      => IF InvalidParams(last.op, request.query) # {}
         THEN /\ last.status = "validation"
              /\ last.messages = <<"Invalid query parameter format">>
              /\ "rows" \notin DOMAIN last
         ELSE last.status = "ok" /\ last.messages = <<>>

(* a query with four invalid parameters was answered *)
C24_Witness ==
    /\ last.op = "getAllPapers"
    /\ last.status = "validation"
    /\ Cardinality(InvalidParams(last.op, request.query)) = 4

(* C25: however createPaper and updatePaper requests that name the same    *)
(* author tuple interleave, the store holds at most one author record      *)
(* with that tuple, so the papers link to one author identifier.           *)
C25_OneAuthorRecordPerTuple ==
    \A a, b \in DOMAIN authors : authors[a] = authors[b] => a = b

(* C26: an author is among the authors of a paper exactly when the paper   *)
(* is among the papers of the author, and every link joins a stored paper  *)
(* and a stored author.                                                    *)
C26_LinksSymmetricNoDangling ==
    /\ \A p \in DOMAIN papers, a \in DOMAIN authors :
          a \in AuthorsOf(links, p) <=> p \in PapersOf(links, a)
    /\ \A l \in links : l[1] \in DOMAIN papers /\ l[2] \in DOMAIN authors

(* an author was deleted while a paper with an author is stored *)
C26_Witness ==
    /\ last.op = "deleteAuthor"
    /\ last.status = "no_content"
    /\ last.id \notin DOMAIN authors
    /\ \E p \in DOMAIN papers : AuthorsOf(links, p) # {}

(* C27: updatePaper answered not found for an identifier without a stored  *)
(* paper has changed nothing in the store, and has created no author.      *)
C27_MissingPaperUpdateChangesNothing ==
    [][(last'.op = "updatePaper" /\ last'.status = "not_found")
          => UNCHANGED store]_vars

(* deleteAuthor calls are in flight on both connections, for the two       *)
(* authors that are the only authors of paper r                            *)
DeletingBothAuthorsOf(r) ==
    /\ \A p \in Procs : calls[p].op = "deleteAuthor"
    /\ calls[1].id # calls[2].id
    /\ AuthorsOf(links, r) = {calls[1].id, calls[2].id}

(* C28: when deleteAuthor(X) and deleteAuthor(Y) are in flight together    *)
(* for the only two authors of a paper, at most one of them deletes its    *)
(* author: when one does, the other has yet to run its guard query, which  *)
(* then refuses it.                                                        *)
C28_CoAuthorsNotBothDeleted ==
    [][\A p \in Procs, r \in DOMAIN papers :
          (/\ DeletingBothAuthorsOf(r)
           /\ calls[p].pc = "delete"
           /\ calls[p].id \in DOMAIN authors
           /\ authors' = Remove(authors, calls[p].id))
             => calls[3 - p].pc = "guard"]_vars

(* C29: every successful createAuthor adds exactly one author record, with *)
(* the fields of the body, under an identifier no stored author had, and   *)
(* with no paper linked to it, whether or not a stored author has the same *)
(* fields.                                                                 *)
C29_CreateAuthorAlwaysAdds ==
    [][(last'.op = "createAuthor" /\ last'.status = "created")
          => /\ last'.id \notin DOMAIN authors
             /\ authors' = Extend(authors, last'.id, NewAuthorRow(request'.body))
             /\ PapersOf(links', last'.id) = {}
             /\ papers' = papers
             /\ links' = links]_vars

(* an author was created with the fields a stored author already had *)
C29_Witness ==
    /\ AuthorWritten("createAuthor")
    /\ \E a \in DOMAIN authors : a # last.id /\ authors[a] = authors[last.id]

(* C30: createPaper and updatePaper keep every stored author record as it  *)
(* was and keep the authors of every other paper, also when updatePaper    *)
(* leaves an author without a paper.                                       *)
C30_PaperWriteKeepsAuthors ==
    [][(last'.op \in {"createPaper", "updatePaper"})
          => /\ \A a \in DOMAIN authors :
                   a \in DOMAIN authors' /\ authors'[a] = authors[a]
             /\ \A p \in DOMAIN papers :
                   p # last'.id
                      => /\ p \in DOMAIN papers'
                         /\ AuthorsOf(links', p) = AuthorsOf(links, p)]_vars

(* updatePaper gave paper 1 the author 2 alone, and author 1 is stored     *)
(* without a paper                                                         *)
C30_Witness ==
    /\ last.op = "updatePaper"
    /\ last.status = "ok"
    /\ last.id = 1
    /\ AuthorsOf(links, 1) = {2}
    /\ 1 \in DOMAIN authors
    /\ PapersOf(links, 1) = {}

====
